---- MODULE Spec2Model ----
(***************************************************************************)
(* Model of rafou/gestore: the demoapp catalogue models (demoapp/models.py) *)
(* with the deletion policies, the unique isbn, the is_overdue property and *)
(* the post_save hook that keeps a Profile per user account, and the        *)
(* GestoreEncoder.default dispatch (gestore/encoders.py).                   *)
(*                                                                          *)
(* A table is a function from the primary keys of its rows to the rows.     *)
(* A nullable column holds Null (<<>>) or Ref(x) (<<x>>).  Model instances  *)
(* are taken as freshly loaded from the database: relation caches of stale  *)
(* in-memory instances are not modelled.                                    *)
(***************************************************************************)
EXTENDS Integers, Sequences, FiniteSets, TLC

\* ---- bounds of the model ----
NumUsers == 2
NumProfileIds == 3
NumInstances == 2
NumAuthors == 2
NumLanguages == 1
NumBooks == 2
NumIsbns == 2
MaxDate == 2

UserIds == 1..NumUsers
ProfileIds == 1..NumProfileIds
InstanceIds == 1..NumInstances
AuthorIds == 1..NumAuthors
LanguageIds == 1..NumLanguages
BookIds == 1..NumBooks
Isbns == 1..NumIsbns
Dates == 0..MaxDate

Null == <<>>
Ref(x) == <<x>>
Nullable(S) == {Null} \cup {Ref(x) : x \in S}

VARIABLES
    users,          \* auth User table: the set of primary keys
    profiles,       \* Profile table: pk -> [user]
    nextProfileId,  \* the Profile table's auto-increment counter
    authors,        \* Author table: set of primary keys
    languages,      \* Language table: set of primary keys
    books,          \* Book table: pk -> [author, language, isbn]
    instances,      \* BookInstance table: pk -> [book, due_back, borrower]
    version,        \* django.VERSION of the installation
    today,          \* date.today()
    result,         \* outcome of the last operation
    countries,      \* TRUE iff django_countries can be imported
    encoded         \* last call of GestoreEncoder.default: [o, out]

vars == <<users, profiles, nextProfileId, authors, languages, books, instances,
          version, today, result, countries, encoded>>

accountVars == <<users, profiles, nextProfileId>>
catalogVars == <<authors, languages, books>>
envVars == <<version, today, countries, encoded>>

\* Remove the rows with keys in S from table t.
Without(t, S) == [k \in DOMAIN t \ S |-> t[k]]

\* Outcome of an operation: what it was, on which key, how it ended, and the
\* Profile the hook saved (Null when it saved none).
Outcome(op, arg, status, saved) ==
    [op |-> op, arg |-> arg, status |-> status, saved |-> saved]

\* Outcome of a deletion: affected holds the dependent rows, as <<table, pk>>,
\* that referred to the deleted row (those the collector deleted or updated,
\* or those an error reports as blocking the deletion).
DeleteOutcome(op, arg, status, affected) ==
    [op |-> op, arg |-> arg, status |-> status, saved |-> Null, affected |-> affected]

Rows(table, keys) == {<<table, k>> : k \in keys}

\* ---------------------------------------------------------------------
\* Profile and the post_save hook
\* ---------------------------------------------------------------------

\* Profile.objects.create(user=instance): insert a row with the next id.
\* user is a OneToOneField, hence unique: a second row for the same user is
\* an IntegrityError and inserts nothing.
ProfileCreate(ps, nid, instance) ==
    IF \E p \in DOMAIN ps : ps[p].user = instance
    THEN [status |-> "IntegrityError", profiles |-> ps, next |-> nid]
    ELSE [status |-> "ok", profiles |-> ps @@ (nid :> [user |-> instance]),
          next |-> nid + 1]

\* instance.profile: the reverse one-to-one accessor looks the row up by user
\* and raises Profile.DoesNotExist when there is none.
ProfileOf(ps, instance) == {p \in DOMAIN ps : ps[p].user = instance}

\* Hook variants used to test the properties' sensitivity to the hook's code.
HookNeverCreates(ps, nid, instance, created) ==
    LET found == ProfileOf(ps, instance)
    IN  IF found = {}
        THEN [status |-> "DoesNotExist", profiles |-> ps, next |-> nid, saved |-> Null]
        ELSE [status |-> "ok", profiles |-> ps, next |-> nid,
              saved |-> Ref(CHOOSE p \in found : TRUE)]

HookAlwaysCreates(ps, nid, instance, created) ==
    LET c == ProfileCreate(ps, nid, instance)
    IN  IF c.status # "ok"
        THEN [status |-> c.status, profiles |-> c.profiles, next |-> c.next, saved |-> Null]
        ELSE [status |-> "ok", profiles |-> c.profiles, next |-> c.next,
              saved |-> Ref(CHOOSE p \in ProfileOf(c.profiles, instance) : TRUE)]

HookCreatesIfMissing(ps, nid, instance, created) ==
    LET c == IF ProfileOf(ps, instance) = {}
             THEN ProfileCreate(ps, nid, instance)
             ELSE [status |-> "ok", profiles |-> ps, next |-> nid]
    IN  [status |-> "ok", profiles |-> c.profiles, next |-> c.next,
         saved |-> Ref(CHOOSE p \in ProfileOf(c.profiles, instance) : TRUE)]

\* create_or_update_user_profile(sender, instance, created):
\*     if created: Profile.objects.create(user=instance)
\*     instance.profile.save()
\* Saving the freshly loaded Profile writes back the row it read.
create_or_update_user_profile(ps, nid, instance, created) ==
    LET c == IF created
             THEN ProfileCreate(ps, nid, instance)
             ELSE [status |-> "ok", profiles |-> ps, next |-> nid]
    IN  IF c.status # "ok"
        THEN [status |-> c.status, profiles |-> c.profiles, next |-> c.next,
              saved |-> Null]
        ELSE LET found == ProfileOf(c.profiles, instance)
             IN  IF found = {}
                 THEN [status |-> "DoesNotExist", profiles |-> c.profiles,
                       next |-> c.next, saved |-> Null]
                 ELSE [status |-> "ok", profiles |-> c.profiles, next |-> c.next,
                       saved |-> Ref(CHOOSE p \in found : TRUE)]

\* User.save() of an account that is not in the table: INSERT, then post_save
\* with created = True.  The signal is sent after the row is written, so an
\* error raised by the hook leaves the account stored.
CreateUser(u) ==
    /\ u \notin users
    /\ nextProfileId \in ProfileIds
    /\ LET h == create_or_update_user_profile(profiles, nextProfileId, u, TRUE)
       IN  /\ users' = users \cup {u}
           /\ profiles' = h.profiles
           /\ nextProfileId' = h.next
           /\ result' = Outcome("CreateUser", u, h.status, h.saved)
    /\ UNCHANGED <<catalogVars, instances, envVars>>

\* User.save() of a stored account: UPDATE, then post_save with created = False.
SaveUser(u) ==
    /\ u \in users
    /\ LET h == create_or_update_user_profile(profiles, nextProfileId, u, FALSE)
       IN  /\ profiles' = h.profiles
           /\ nextProfileId' = h.next
           /\ result' = Outcome("SaveUser", u, h.status, h.saved)
    /\ UNCHANGED <<users, catalogVars, instances, envVars>>

\* on_delete of the relations that point at User, each preceded by a variant
\* declaring another policy.
ProfileUserOnDelete == "CASCADE"
BorrowerDoNothing == "DO_NOTHING"
BorrowerOnDelete == "SET_NULL"

\* Rows of table t whose column col refers to key k.
Referring(t, col, k) == {r \in DOMAIN t : t[r][col] = Ref(k)}

\* The table after the deletion of the row k that its column col points at,
\* under the column's on_delete policy (the deletion itself being allowed).
AfterDelete(t, col, k, policy) ==
    IF policy = "CASCADE" THEN Without(t, Referring(t, col, k))
    ELSE IF policy = "SET_NULL"
         THEN [r \in DOMAIN t |->
                 IF t[r][col] = Ref(k) THEN [t[r] EXCEPT ![col] = Null] ELSE t[r]]
         ELSE t

\* Profile.user is not nullable: its rows hold the key itself.
ProfilesAfterUserDelete(ps, u) ==
    IF ProfileUserOnDelete = "CASCADE" THEN Without(ps, ProfileOf(ps, u)) ELSE ps

\* User.delete(): Profile rows cascade, BookInstance.borrower is set to null.
DeleteUser(u) ==
    /\ u \in users
    /\ users' = users \ {u}
    /\ profiles' = ProfilesAfterUserDelete(profiles, u)
    /\ instances' = AfterDelete(instances, "borrower", u, BorrowerOnDelete)
    /\ result' = DeleteOutcome("DeleteUser", u, "ok",
                               Rows("profile", ProfileOf(profiles, u))
                               \cup Rows("instance", Referring(instances, "borrower", u)))
    /\ UNCHANGED <<nextProfileId, catalogVars, envVars>>

\* Profile.delete(): nothing refers to a Profile.
DeleteProfile(p) ==
    /\ p \in DOMAIN profiles
    /\ profiles' = Without(profiles, {p})
    /\ result' = Outcome("DeleteProfile", p, "ok", Null)
    /\ UNCHANGED <<users, nextProfileId, catalogVars, instances, envVars>>

\* ---------------------------------------------------------------------
\* Author, Language, Book
\* ---------------------------------------------------------------------

CreateAuthor(a) ==
    /\ a \notin authors
    /\ authors' = authors \cup {a}
    /\ result' = Outcome("CreateAuthor", a, "ok", Null)
    /\ UNCHANGED <<accountVars, languages, books, instances, envVars>>

CreateLanguage(l) ==
    /\ l \notin languages
    /\ languages' = languages \cup {l}
    /\ result' = Outcome("CreateLanguage", l, "ok", Null)
    /\ UNCHANGED <<accountVars, authors, books, instances, envVars>>

\* on_delete of Book.author and of Book.language (BookLanguageCascade is a
\* variant declaring another policy).
BookAuthorOnDelete == "SET_NULL"
BookLanguageCascade == "CASCADE"
BookLanguageOnDelete == "SET_NULL"

\* Author.delete(): Book.author is set to null.
DeleteAuthor(a) ==
    /\ a \in authors
    /\ authors' = authors \ {a}
    /\ books' = AfterDelete(books, "author", a, BookAuthorOnDelete)
    /\ result' = DeleteOutcome("DeleteAuthor", a, "ok",
                               Rows("book", Referring(books, "author", a)))
    /\ UNCHANGED <<accountVars, languages, instances, envVars>>

\* Language.delete(): Book.language is set to null.
DeleteLanguage(l) ==
    /\ l \in languages
    /\ languages' = languages \ {l}
    /\ books' = AfterDelete(books, "language", l, BookLanguageOnDelete)
    /\ result' = DeleteOutcome("DeleteLanguage", l, "ok",
                               Rows("book", Referring(books, "language", l)))
    /\ UNCHANGED <<accountVars, authors, instances, envVars>>

\* A foreign key column must be null or name a stored row.
FkOk(ref, keys) == ref = Null \/ ref[1] \in keys

\* Book.isbn is declared unique=True: no other row may hold the same isbn.
IsbnNotChecked(bs, b, isbn) == FALSE
IsbnTaken(bs, b, isbn) == \E o \in DOMAIN bs \ {b} : bs[o].isbn = isbn

\* Book.save(): INSERT or UPDATE of row b.  A violated constraint raises
\* IntegrityError and writes nothing.
SaveBook(b, author, language, isbn) ==
    /\ IF IsbnTaken(books, b, isbn) \/ ~FkOk(author, authors) \/ ~FkOk(language, languages)
       THEN /\ books' = books
            /\ result' = Outcome("SaveBook", <<b, isbn>>, "IntegrityError", Null)
       ELSE /\ books' = [k \in DOMAIN books \cup {b} |->
                           IF k = b
                           THEN [author |-> author, language |-> language, isbn |-> isbn]
                           ELSE books[k]]
            /\ result' = Outcome("SaveBook", <<b, isbn>>, "ok", Null)
    /\ UNCHANGED <<accountVars, authors, languages, instances, envVars>>

\* ---------------------------------------------------------------------
\* BookInstance
\* ---------------------------------------------------------------------

\* django.VERSION < (3, 1, 0), tuples compared lexicographically.
VersionLess(v, w) ==
    \/ v[1] < w[1]
    \/ v[1] = w[1] /\ v[2] < w[2]
    \/ v[1] = w[1] /\ v[2] = w[2] /\ v[3] < w[3]

\* RESTRICT = models.PROTECT before Django 3.1, models.RESTRICT from 3.1 on.
RestrictAsSetNull(v) == "SET_NULL"
RESTRICT(v) == IF VersionLess(v, <<3, 1, 0>>) THEN "PROTECT" ELSE "RESTRICT"

\* on_delete of BookInstance.book.
InstanceBookOnDelete(v) == RESTRICT(v)

\* The error a refused deletion raises under the policy.
RefusalOf(policy) == IF policy = "PROTECT" THEN "ProtectedError" ELSE "RestrictedError"

\* Book.delete(): refused while a BookInstance refers to the Book (nothing
\* else is deleted with it, so RESTRICT refuses exactly like PROTECT).
DeleteBook(b) ==
    /\ b \in DOMAIN books
    /\ LET policy == InstanceBookOnDelete(version)
       IN  IF policy \in {"PROTECT", "RESTRICT"} /\ Referring(instances, "book", b) # {}
           THEN /\ UNCHANGED <<books, instances>>
                /\ result' = DeleteOutcome("DeleteBook", b, RefusalOf(policy),
                                           Rows("instance", Referring(instances, "book", b)))
           ELSE /\ books' = Without(books, {b})
                /\ instances' = AfterDelete(instances, "book", b, policy)
                /\ result' = DeleteOutcome("DeleteBook", b, "ok",
                                           Rows("instance", Referring(instances, "book", b)))
    /\ UNCHANGED <<accountVars, authors, languages, envVars>>

\* BookInstance.save(): INSERT or UPDATE of row i.
SaveBookInstance(i, book, due_back, borrower) ==
    /\ IF ~FkOk(book, DOMAIN books) \/ ~FkOk(borrower, users)
       THEN /\ instances' = instances
            /\ result' = Outcome("SaveBookInstance", i, "IntegrityError", Null)
       ELSE /\ instances' = [k \in DOMAIN instances \cup {i} |->
                               IF k = i
                               THEN [book |-> book, due_back |-> due_back,
                                     borrower |-> borrower]
                               ELSE instances[k]]
            /\ result' = Outcome("SaveBookInstance", i, "ok", Null)
    /\ UNCHANGED <<accountVars, catalogVars, envVars>>

\* BookInstance.delete(): nothing refers to a BookInstance.
DeleteBookInstance(i) ==
    /\ i \in DOMAIN instances
    /\ instances' = Without(instances, {i})
    /\ result' = Outcome("DeleteBookInstance", i, "ok", Null)
    /\ UNCHANGED <<accountVars, catalogVars, envVars>>

\* A date is always truthy in Python; only None is falsy.
Truthy(d) == d # Null

\* is_overdue variant comparing with >= instead of >.
OverdueFromDueDay(self, now) ==
    IF Truthy(self.due_back) /\ now >= self.due_back[1] THEN TRUE ELSE FALSE

\* BookInstance.is_overdue:
\*     if self.due_back and date.today() > self.due_back: return True
\*     return False
is_overdue(self, now) ==
    IF Truthy(self.due_back) /\ now > self.due_back[1] THEN TRUE ELSE FALSE

\* Reading the is_overdue property of a stored BookInstance.
ReadIsOverdue(i) ==
    /\ i \in DOMAIN instances
    /\ result' = [op |-> "is_overdue", arg |-> i, status |-> "ok", saved |-> Null,
                  value |-> is_overdue(instances[i], today)]
    /\ UNCHANGED <<accountVars, catalogVars, instances, envVars>>

\* The calendar day changes.
NextDay ==
    /\ today < MaxDate
    /\ today' = today + 1
    /\ result' = Outcome("NextDay", today + 1, "ok", Null)
    /\ UNCHANGED <<accountVars, catalogVars, instances, version, countries, encoded>>

\* ---------------------------------------------------------------------
\* GestoreEncoder
\* ---------------------------------------------------------------------

PyNone == [type |-> "NoneType"]
PyStr(s) == [type |-> "str", value |-> s]

Return(v) == [kind |-> "return", value |-> v]
Raise(e) == [kind |-> "raise", error |-> e]

\* The classes of the values handed to the encoder, and their superclasses.
Classes == {"FieldFile", "ImageFieldFile", "Country", "datetime", "date", "time",
            "timedelta", "Decimal", "UUID", "Promise", "object"}

Mro(cls) ==
    IF cls = "ImageFieldFile" THEN {"ImageFieldFile", "FieldFile", "object"}
    ELSE IF cls = "datetime" THEN {"datetime", "date", "object"}
    ELSE {cls, "object"}

isinstance(o, cls) == cls \in Mro(o.cls)

\* A value: its class, its name and code attributes, and its text form
\* (isoformat() or str()).  An empty FieldFile has the name None.
Names == {PyNone, PyStr("a.pdf"), PyStr("b.pdf")}
Codes == {PyStr("FR"), PyStr("NZ")}
Texts == {PyStr("2020-01-01")}
Values == [cls : Classes, name : Names, code : Codes, text : Texts]

\* DjangoJSONEncoder.default: dates, times and durations in ISO form, Decimal,
\* UUID and lazy strings through str(); json.JSONEncoder.default raises
\* TypeError for anything else.
BaseDefault(o) ==
    IF \E c \in {"datetime", "date", "time", "timedelta", "Decimal", "UUID", "Promise"} :
           isinstance(o, c)
    THEN Return(o.text)
    ELSE Raise("TypeError")

\* Variant that lets the failed import escape.
DefaultImportEscapes(o, installed) ==
    IF isinstance(o, "FieldFile") THEN Return(o.name)
    ELSE IF ~installed THEN Raise("ImportError")
    ELSE IF isinstance(o, "Country") THEN Return(o.code)
    ELSE BaseDefault(o)

\* GestoreEncoder.default(o): installed tells whether the import of
\* django_countries succeeds; ImportError is caught and passed over.
default(o, installed) ==
    IF isinstance(o, "FieldFile") THEN Return(o.name)
    ELSE LET try == IF ~installed THEN "ImportError"
                    ELSE IF isinstance(o, "Country") THEN "return"
                    ELSE "fallthrough"
         IN  IF try = "return" THEN Return(o.code) ELSE BaseDefault(o)

\* One call of the encoder's default on a value that cannot be a Country
\* unless django_countries is installed.
Encode(o) ==
    /\ o.cls = "Country" => countries
    /\ encoded' = [o |-> o, out |-> default(o, countries)]
    /\ result' = Outcome("default", 0, "ok", Null)
    /\ UNCHANGED <<accountVars, catalogVars, instances, version, today, countries>>

\* ---------------------------------------------------------------------
\* Specifications
\* ---------------------------------------------------------------------

Versions == {<<3, 0, 0>>, <<3, 1, 0>>}
NoCall == [o |-> PyNone, out |-> PyNone]

\* Empty database.
Empty ==
    /\ users = {}
    /\ profiles = <<>>
    /\ nextProfileId = 1
    /\ authors = {}
    /\ languages = {}
    /\ books = <<>>
    /\ instances = <<>>
    /\ today = 0
    /\ result = Outcome("init", 0, "ok", Null)
    /\ encoded = NoCall

Init == Empty /\ version = <<3, 1, 0>> /\ countries = TRUE

\* Accounts, Profiles and loans.
Next ==
    \/ \E u \in UserIds : CreateUser(u)
    \/ \E u \in UserIds : SaveUser(u)
    \/ \E u \in UserIds : DeleteUser(u)
    \/ \E p \in ProfileIds : DeleteProfile(p)
    \/ \E i \in InstanceIds, u \in Nullable(UserIds) : SaveBookInstance(i, Null, Null, u)
    \/ \E i \in InstanceIds : DeleteBookInstance(i)

Spec == Init /\ [][Next]_vars

\* Authors, Languages and Books (each Book with its own isbn).
NextBooks ==
    \/ \E a \in AuthorIds : CreateAuthor(a)
    \/ \E a \in AuthorIds : DeleteAuthor(a)
    \/ \E l \in LanguageIds : CreateLanguage(l)
    \/ \E l \in LanguageIds : DeleteLanguage(l)
    \/ \E b \in BookIds, a \in Nullable(AuthorIds), l \in Nullable(LanguageIds) :
          SaveBook(b, a, l, b)

SpecBooks == Init /\ [][NextBooks]_vars

\* Books, their isbn and their copies, under either Django version.
InitStock == Empty /\ version \in Versions /\ countries = TRUE

NextStock ==
    \/ \E b \in BookIds, n \in Isbns : SaveBook(b, Null, Null, n)
    \/ \E b \in BookIds : DeleteBook(b)
    \/ \E i \in InstanceIds, b \in Nullable(BookIds) : SaveBookInstance(i, b, Null, Null)
    \/ \E i \in InstanceIds : DeleteBookInstance(i)

SpecStock == InitStock /\ [][NextStock]_vars

\* Due dates and the calendar.
NextOverdue ==
    \/ \E i \in InstanceIds, d \in Nullable(Dates) : SaveBookInstance(i, Null, d, Null)
    \/ \E i \in InstanceIds : ReadIsOverdue(i)
    \/ NextDay

SpecOverdue == Init /\ [][NextOverdue]_vars

\* The encoder, with and without django_countries.
InitEncoder == Empty /\ version = <<3, 1, 0>> /\ countries \in BOOLEAN

NextEncoder == \E o \in Values : Encode(o)

SpecEncoder == InitEncoder /\ [][NextEncoder]_vars

\* ---------------------------------------------------------------------
\* Properties
\* ---------------------------------------------------------------------

ProfileCount(u) == Cardinality(ProfileOf(profiles, u))

\* C1: every stored user account has exactly one Profile, in every reachable
\* state (never none, never two or more).
C1_ExactlyOneProfile == \A u \in users : ProfileCount(u) = 1

\* C2: a save that creates account u ends without error, having created a
\* Profile for u that did not exist before and then saved that very Profile,
\* so a Profile referring to u is stored right after the creating save.
C2_ProfileAfterCreate ==
    [][\A u \in UserIds :
          (u \notin users /\ u \in users') =>
              /\ result'.op = "CreateUser" /\ result'.arg = u
              /\ result'.status = "ok"
              /\ \E p \in DOMAIN profiles' \ DOMAIN profiles :
                    /\ profiles'[p].user = u
                    /\ result'.saved = Ref(p)]_vars

C2_Witness ==
    /\ result.op = "CreateUser" /\ result.status = "ok"
    /\ result.arg \in users
    /\ \E p \in DOMAIN profiles : profiles[p].user = result.arg /\ result.saved = Ref(p)

\* C3: saving a stored account that has a Profile ends without error, saves
\* that Profile and leaves the Profile table as it was.
C3_ResaveKeepsProfiles ==
    [][\A u \in users :
          (result'.op = "SaveUser" /\ result'.arg = u /\ ProfileOf(profiles, u) # {}) =>
              /\ result'.status = "ok"
              /\ \E p \in ProfileOf(profiles, u) : result'.saved = Ref(p)
              /\ profiles' = profiles]_vars

C3_Witness ==
    /\ result.op = "SaveUser" /\ result.status = "ok"
    /\ \E p \in DOMAIN profiles : profiles[p].user = result.arg /\ result.saved = Ref(p)

\* C9: saving a stored account that has no Profile raises the lookup error
\* (Profile.DoesNotExist) and creates no Profile: the account still has none.
C9_MissingProfileRaises ==
    [][\A u \in users :
          (result'.op = "SaveUser" /\ result'.arg = u /\ ProfileOf(profiles, u) = {}) =>
              /\ result'.status = "DoesNotExist"
              /\ result'.saved = Null
              /\ profiles' = profiles
              /\ ProfileOf(profiles', u) = {}]_vars

C9_Witness ==
    /\ result.op = "SaveUser" /\ result.status = "DoesNotExist"
    /\ result.arg \in users
    /\ ProfileOf(profiles, result.arg) = {}

\* Every Profile and every non-null borrower refers to a stored account.
NoDanglingUser ==
    /\ \A p \in DOMAIN profiles : profiles[p].user \in users
    /\ \A i \in DOMAIN instances :
          instances[i].borrower # Null => instances[i].borrower[1] \in users

\* C10: no record ever refers to a deleted account; deleting an account
\* deletes exactly its Profile and nulls the borrower of exactly the
\* BookInstances it had borrowed, deleting no BookInstance.
C10_NoDanglingUser ==
    /\ []NoDanglingUser
    /\ [][\A u \in users :
             u \notin users' =>
                 /\ profiles' = Without(profiles, {p \in DOMAIN profiles : profiles[p].user = u})
                 /\ DOMAIN instances' = DOMAIN instances
                 /\ \A i \in DOMAIN instances :
                       instances'[i] = IF instances[i].borrower = Ref(u)
                                       THEN [instances[i] EXCEPT !.borrower = Null]
                                       ELSE instances[i]]_vars

C10_Witness ==
    /\ result.op = "DeleteUser" /\ result.arg \notin users
    /\ \E p \in ProfileIds : <<"profile", p>> \in result.affected /\ p \notin DOMAIN profiles
    /\ \E i \in DOMAIN instances :
          <<"instance", i>> \in result.affected /\ instances[i].borrower = Null
    /\ \E i \in DOMAIN instances : instances[i].borrower # Null

Refusals == {"RestrictedError", "ProtectedError"}

\* C4: deleting a Book that a BookInstance refers to is refused with a
\* restriction error and changes neither the Books nor the BookInstances; a
\* Book leaves the table only when no BookInstance refers to it.
C4_ReferencedBookRestricted ==
    [][/\ \A b \in DOMAIN books :
             (result'.op = "DeleteBook" /\ result'.arg = b) =>
                 IF \E i \in DOMAIN instances : instances[i].book = Ref(b)
                 THEN /\ result'.status \in Refusals
                      /\ books' = books
                      /\ instances' = instances
                 ELSE /\ result'.status = "ok"
                      /\ b \notin DOMAIN books'
                      /\ instances' = instances
       /\ \A b \in DOMAIN books :
             b \notin DOMAIN books' =>
                 ~ \E i \in DOMAIN instances : instances[i].book = Ref(b)]_vars

C4_Witness ==
    /\ result.op = "DeleteBook" /\ result.status \in Refusals
    /\ result.arg \in DOMAIN books
    /\ \E i \in DOMAIN instances :
          instances[i].book = Ref(result.arg) /\ <<"instance", i>> \in result.affected

\* Table t after column col of the rows that referred to key k is nulled.
Nulled(t, col, k) ==
    [r \in DOMAIN t |-> IF t[r][col] = Ref(k) THEN [t[r] EXCEPT ![col] = Null] ELSE t[r]]

\* C5: deleting an Author (a Language) succeeds, deletes no Book, nulls the
\* author (language) of exactly the Books that referred to it and changes
\* nothing else of any Book.
C5_AuthorLanguageSetNull ==
    [][/\ \A a \in authors :
             a \notin authors' =>
                 /\ result'.op = "DeleteAuthor" /\ result'.status = "ok"
                 /\ DOMAIN books' = DOMAIN books
                 /\ books' = Nulled(books, "author", a)
       /\ \A l \in languages :
             l \notin languages' =>
                 /\ result'.op = "DeleteLanguage" /\ result'.status = "ok"
                 /\ DOMAIN books' = DOMAIN books
                 /\ books' = Nulled(books, "language", l)]_vars

C5_Witness ==
    /\ result.op = "DeleteAuthor" /\ result.status = "ok"
    /\ result.arg \notin authors
    /\ \E b \in DOMAIN books :
          /\ <<"book", b>> \in result.affected
          /\ books[b].author = Null
          /\ books[b].language # Null
    /\ \E b \in DOMAIN books : books[b].author # Null

UniqueIsbn ==
    \A b1, b2 \in DOMAIN books : b1 # b2 => books[b1].isbn # books[b2].isbn

\* C8: no two Books ever hold the same isbn; a Book save that would give Book
\* b an isbn another Book holds fails with IntegrityError and leaves the Book
\* table unchanged.
C8_IsbnUnique ==
    /\ []UniqueIsbn
    /\ [][result'.op = "SaveBook" =>
             LET b == result'.arg[1]
                 n == result'.arg[2]
             IN  IF \E o \in DOMAIN books : o # b /\ books[o].isbn = n
                 THEN result'.status = "IntegrityError" /\ books' = books
                 ELSE result'.status = "ok" /\ books'[b].isbn = n]_vars

C8_Witness ==
    /\ result.op = "SaveBook" /\ result.status = "IntegrityError"
    /\ result.arg[1] \in DOMAIN books
    /\ books[result.arg[1]].isbn # result.arg[2]
    /\ \E o \in DOMAIN books : o # result.arg[1] /\ books[o].isbn = result.arg[2]

\* C6: is_overdue is true exactly when due_back is set and lies strictly
\* before the current date; it is false for a null due_back, for due_back
\* equal to the current date and for a later due_back.
C6_OverdueIffPast ==
    [][result'.op = "is_overdue" =>
          LET due == instances[result'.arg].due_back
          IN  /\ result'.value = (due # Null /\ due[1] < today)
              /\ due = Null => result'.value = FALSE
              /\ (due # Null /\ due[1] >= today) => result'.value = FALSE]_vars

C6_Witness ==
    /\ result.op = "is_overdue" /\ result.value = TRUE
    /\ instances[result.arg].due_back # Null
    /\ instances[result.arg].due_back[1] = today - 1

\* C7: default(o) returns o.name for a file-reference field; otherwise, with
\* the country dependency available, o.code for a country value; otherwise
\* exactly the base encoder's outcome for o, its TypeError included, and the
\* dependency's absence raises nothing by itself.
C7_EncoderDispatch ==
    encoded # NoCall =>
        LET o == encoded.o
            out == encoded.out
            isFile == o.cls \in {"FieldFile", "ImageFieldFile"}
            isCountry == countries /\ o.cls = "Country"
        IN  /\ isFile => out = Return(o.name)
            /\ (~isFile /\ isCountry) => out = Return(o.code)
            /\ (~isFile /\ ~isCountry) => out = BaseDefault(o)
            /\ (~isFile /\ ~isCountry /\ o.cls = "object") => out = Raise("TypeError")
            /\ out.kind = "raise" => out.error # "ImportError"

C7_Witness ==
    /\ ~countries
    /\ encoded # NoCall
    /\ encoded.o.cls = "object"
    /\ encoded.out = Raise("TypeError")

====
